---- MODULE Spec2Model ----
(***************************************************************************)
(* Model of crew_definition.py: load_product_details and MarketplaceCrew   *)
(* (__init__, setup, create_crew, run).                                    *)
(*                                                                         *)
(* Python strings that the code inspects (product ids, numeric strings)    *)
(* are sequences of one-character strings.  Every other Python value is a  *)
(* record with a "kind" field, so that values of different Python types    *)
(* can be compared.  Floats are fixed-point, in hundredths.                *)
(***************************************************************************)
EXTENDS Integers, Sequences, FiniteSets, TLC

\* ------------------------------------------------------------- bounds ----
\* run() calls made on one MarketplaceCrew object
MaxRuns == 2
\* MarketplaceCrew objects built, one after the other, from the same request
MaxConstructs == 2

\* ------------------------------------------------------ python values ----
None == [kind |-> "None"]
\* a key that is absent from a dict
Missing == [kind |-> "missing"]
PyInt(n) == [kind |-> "int", n |-> n]
\* c is the value in hundredths
PyFloat(c) == [kind |-> "float", c |-> c]
PyStr(s) == [kind |-> "str", s |-> s]

Digits == {"0", "1", "2", "5", "9"}
DigitVal(c) == CASE c = "0" -> 0 [] c = "1" -> 1 [] c = "2" -> 2
                 [] c = "5" -> 5 [] c = "9" -> 9 [] OTHER -> 0

\* str.lower(), on the alphabet of the model
LowerChar(c) == CASE c = "P" -> "p" [] c = "Z" -> "z" [] OTHER -> c
lower(s) == [i \in 1..Len(s) |-> LowerChar(s[i])]

\* str.strip(): leading and trailing whitespace removed
RECURSIVE lstrip(_)
lstrip(s) == IF s # <<>> /\ Head(s) = " " THEN lstrip(Tail(s)) ELSE s
RECURSIVE rstrip(_)
rstrip(s) == IF s # <<>> /\ s[Len(s)] = " "
             THEN rstrip(SubSeq(s, 1, Len(s) - 1)) ELSE s
strip(s) == rstrip(lstrip(s))

IsDigits(s) == s # <<>> /\ \A i \in 1..Len(s) : s[i] \in Digits
RECURSIVE DigitsVal(_)
DigitsVal(s) == IF s = <<>> THEN 0
                ELSE 10 * DigitsVal(SubSeq(s, 1, Len(s) - 1)) + DigitVal(s[Len(s)])

\* position of the first "." of s, 0 when there is none
DotPos(s) == IF \E i \in 1..Len(s) : s[i] = "."
             THEN CHOOSE i \in 1..Len(s) : s[i] = "." /\ \A j \in 1..(i - 1) : s[j] # "."
             ELSE 0

\* hundredths denoted by the digits after the decimal point (at most two
\* digits are used by the model's inputs)
FracVal(f) == IF f = <<>> THEN 0
              ELSE IF Len(f) = 1 THEN 10 * DigitVal(f[1])
              ELSE 10 * DigitVal(f[1]) + DigitVal(f[2])

Ok(v) == [ok |-> TRUE, val |-> v]
Raise(e) == [ok |-> FALSE, exc |-> e]

\* float(v), v = d["Budget"]; subscripting an absent key raises KeyError
float(v, key) ==
    CASE v.kind = "missing" -> Raise([type |-> "KeyError", field |-> key, raw |-> v])
      [] v.kind = "None"    -> Raise([type |-> "TypeError", field |-> key, raw |-> v])
      [] v.kind = "int"     -> Ok(PyFloat(100 * v.n))
      [] v.kind = "float"   -> Ok(v)
      [] v.kind = "str"     ->
            LET t == strip(v.s)
                d == DotPos(t)
                ip == IF d = 0 THEN t ELSE SubSeq(t, 1, d - 1)
                fp == IF d = 0 THEN <<>> ELSE SubSeq(t, d + 1, Len(t))
                wellformed == /\ ip = <<>> \/ IsDigits(ip)
                              /\ fp = <<>> \/ IsDigits(fp)
                              /\ ip # <<>> \/ fp # <<>>
            IN IF wellformed
               THEN Ok(PyFloat(100 * DigitsVal(ip) + FracVal(fp)))
               ELSE Raise([type |-> "ValueError", field |-> key, raw |-> v])

\* int(v), v = d["Quantity"]; int() of a float truncates, int() of a string
\* accepts digits only
int(v, key) ==
    CASE v.kind = "missing" -> Raise([type |-> "KeyError", field |-> key, raw |-> v])
      [] v.kind = "None"    -> Raise([type |-> "TypeError", field |-> key, raw |-> v])
      [] v.kind = "int"     -> Ok(v)
      [] v.kind = "float"   -> Ok(PyInt(v.c \div 100))
      [] v.kind = "str"     ->
            IF IsDigits(strip(v.s))
            THEN Ok(PyInt(DigitsVal(strip(v.s))))
            ELSE Raise([type |-> "ValueError", field |-> key, raw |-> v])

\* ------------------------------------------------------------ catalog ----
\* p.get("product_id", "")
GetProductId(p) == IF p.product_id.kind = "missing" THEN <<>> ELSE p.product_id.s

RECURSIVE Filter(_, _)
Filter(products, product_id) ==
    IF products = <<>> THEN <<>>
    ELSE LET p == Head(products)
             rest == Filter(Tail(products), product_id)
         IN IF lower(strip(GetProductId(p))) = lower(strip(product_id))
            THEN <<p>> \o rest ELSE rest

\* the comparison without lower()
load_product_details_nolower(product_id, products) ==
    SelectSeq(products, LAMBDA p : strip(GetProductId(p)) = strip(product_id))

load_product_details(product_id, products) == Filter(products, product_id)

\* ----------------------------------------------- reasoning capability ----
\* A text completion: opaque text, of which the model keeps whether it is a
\* JSON document and the value it denotes.
Completion(isJson, value) == [kind |-> "completion", json |-> isJson, value |-> value]

\* json.loads(str(parsed).strip())
json_loads(parsed) ==
    IF parsed.json THEN Ok(parsed.value)
    ELSE Raise([type |-> "JSONDecodeError", raw |-> parsed])

\* The deterministic stub: its answer is a function of the task and of the
\* context handed to it.
Complete(task, context) ==
    [kind |-> "output", by |-> task.name, description |-> task.description,
     context |-> context]

NoContext == [kind |-> "nocontext"]

\* ----------------------------------------------------------- messages ----
\* line 53
ParseError(e, parsed) == [kind |-> "ParseError", e |-> e, raw |-> parsed]

\* dict.get(key): None for an absent key
DictGet(v) == IF v.kind = "missing" THEN None ELSE v

\* lines 62-65
ValidationError(e, d) ==
    [kind |-> "ValidationError", e |-> e,
     Budget |-> DictGet(d.Budget), Quantity |-> DictGet(d.Quantity)]

\* line 78
ProductIDMissing == [kind |-> "ProductIDMissing"]

\* lines 73 and 82
NotFoundError(product_id) == [kind |-> "NotFound", product_id |-> product_id]

\* line 86
UnexpectedLoadError(e) == [kind |-> "UnexpectedLoadError", e |-> e]

\* lines 90-92
NoMatchesFound(product_id) == [kind |-> "NoMatches", product_id |-> product_id]

\* line 202
CrewNotInitialized == [kind |-> "CrewNotInitialized"]

\* --------------------------------------------------------- create_crew ----
StageNames == <<"Shortlist", "Review", "Selection", "Approval">>

\* f"{x:.2f}": defined for int and float, ValueError for str, TypeError for None
Format2f(v) ==
    CASE v.kind = "float" -> Ok([kind |-> "text2f", c |-> v.c])
      [] v.kind = "int"   -> Ok([kind |-> "text2f", c |-> 100 * v.n])
      [] v.kind = "str"   -> Raise([type |-> "ValueError", field |-> "Budget", raw |-> v])
      [] OTHER            -> Raise([type |-> "TypeError", field |-> "Budget", raw |-> v])

\* the review task listed after the selection task
TaskOrder_swapped == <<1, 3, 2, 4>>

\* lines 191-194: the order of the task list
TaskOrder == <<1, 2, 3, 4>>

\* lines 98-195.  The f-strings of the four task descriptions are evaluated
\* in source order; the first failing subscript or format raises.
create_crew(d) ==
    IF d.Quantity.kind = "missing"
    THEN Raise([type |-> "KeyError", field |-> "Quantity", raw |-> Missing])
    ELSE IF d.Budget.kind = "missing"
    THEN Raise([type |-> "KeyError", field |-> "Budget", raw |-> Missing])
    ELSE IF ~Format2f(d.Budget).ok
    THEN Format2f(d.Budget)
    ELSE IF d.Instruction.kind = "missing"
    THEN Raise([type |-> "KeyError", field |-> "Instruction", raw |-> Missing])
    ELSE LET b == Format2f(d.Budget).val
             descriptions ==
               << [ProductDetails |-> d.ProductDetails, Quantity |-> d.Quantity,
                   Budget |-> b, Instruction |-> d.Instruction],
                  [ProductID |-> d.ProductID, Budget |-> b],
                  [fixed |-> "junior_buyer_task"],
                  [Budget |-> b] >>
             task(i) == [name |-> StageNames[i], description |-> descriptions[i]]
         IN Ok([kind |-> "Crew",
                tasks |-> [k \in 1..4 |-> task(TaskOrder[k])]])

\* --------------------------------------------------------------- setup ----
\* The outcome of the constructor: the fields of the object, the request
\* dict as the code left it, the exception that escaped (None when none
\* did), the capability invocations made and the catalog lookups made.
Outcome(d, crew, result, exc, calls, lookups) ==
    [input_data |-> d, crew |-> crew, result |-> result, exc |-> exc,
     calls |-> calls, lookups |-> lookups]

PyList(items) == [kind |-> "list", items |-> items]

\* the matches appended to the ProductDetails the dict already holds
Lookup_extend(d, result, calls, products) ==
    IF d.ProductID.kind = "missing"
    THEN Outcome(d, None, ProductIDMissing, None, calls, 0)
    ELSE IF d.ProductID.kind # "str"
    THEN Outcome(d, None,
                 UnexpectedLoadError([type |-> "AttributeError", raw |-> d.ProductID]),
                 None, calls, 1)
    ELSE LET product_id == d.ProductID.s
             product_details == load_product_details(product_id, products)
             old == IF d.ProductDetails.kind = "list" THEN d.ProductDetails.items ELSE <<>>
         IN IF product_details = <<>>
            THEN Outcome(d, None, NotFoundError(product_id), None, calls, 1)
            ELSE LET d3 == [d EXCEPT !.ProductDetails = PyList(old \o product_details)]
                     c == create_crew(d3)
                 IN IF c.ok
                    THEN Outcome(d3, c.val, result, None, calls, 1)
                    ELSE Outcome(d3, None, result, c.exc, calls, 1)

\* the check of line 72 left out
Lookup_nocheck(d, result, calls, products) ==
    IF d.ProductID.kind = "missing"
    THEN Outcome(d, None, ProductIDMissing, None, calls, 0)
    ELSE IF d.ProductID.kind # "str"
    THEN Outcome(d, None,
                 UnexpectedLoadError([type |-> "AttributeError", raw |-> d.ProductID]),
                 None, calls, 1)
    ELSE LET product_id == d.ProductID.s
             product_details == load_product_details(product_id, products)
             d3 == [d EXCEPT !.ProductDetails = PyList(product_details)]
         IN IF product_details = <<>>
            THEN Outcome(d3, None, NoMatchesFound(product_id), None, calls, 1)
            ELSE LET c == create_crew(d3)
                 IN IF c.ok
                    THEN Outcome(d3, c.val, result, None, calls, 1)
                    ELSE Outcome(d3, None, result, c.exc, calls, 1)

\* lines 68-96, entered with the result that lines 57-65 left
Lookup(d, result, calls, products) ==
    IF d.ProductID.kind = "missing"
    THEN Outcome(d, None, ProductIDMissing, None, calls, 0)
    ELSE IF d.ProductID.kind # "str"
    THEN \* product_id.strip() raises AttributeError, caught at line 85
         Outcome(d, None,
                 UnexpectedLoadError([type |-> "AttributeError", raw |-> d.ProductID]),
                 None, calls, 1)
    ELSE LET product_id == d.ProductID.s
             product_details == load_product_details(product_id, products)
         IN IF product_details = <<>>
            THEN \* line 73 raises ValueError, caught at line 81
                 Outcome(d, None, NotFoundError(product_id), None, calls, 1)
            ELSE LET d3 == [d EXCEPT !.ProductDetails = PyList(product_details)]
                 IN IF product_details = <<>>
                    THEN Outcome(d3, None, NoMatchesFound(product_id), None, calls, 1)
                    ELSE LET c == create_crew(d3)
                         IN IF c.ok
                            THEN Outcome(d3, c.val, result, None, calls, 1)
                            ELSE Outcome(d3, None, result, c.exc, calls, 1)

\* the handler of the coercion failure returning from setup
Validate_returns(d, calls, products) ==
    IF d.kind # "dict"
    THEN Outcome(d, None, None, [type |-> "AttributeError", raw |-> d], calls, 0)
    ELSE LET fb == float(d.Budget, "Budget")
             d1 == IF fb.ok THEN [d EXCEPT !.Budget = fb.val] ELSE d
             iq == int(d1.Quantity, "Quantity")
             d2 == IF fb.ok /\ iq.ok THEN [d1 EXCEPT !.Quantity = iq.val] ELSE d1
             e  == IF fb.ok THEN iq ELSE fb
         IN IF e.ok
            THEN Lookup(d2, None, calls, products)
            ELSE Outcome(d2, None, ValidationError(e.exc, d2), None, calls, 0)

\* lines 56-96: the coercion of Budget and Quantity, then the lookup
Validate(d, calls, products) ==
    IF d.kind # "dict"
    THEN \* d["Budget"] raises TypeError, and d.get in the handler raises
         \* AttributeError, which nothing catches
         Outcome(d, None, None, [type |-> "AttributeError", raw |-> d], calls, 0)
    ELSE LET fb == float(d.Budget, "Budget")
             d1 == IF fb.ok THEN [d EXCEPT !.Budget = fb.val] ELSE d
             iq == int(d1.Quantity, "Quantity")
             d2 == IF fb.ok /\ iq.ok THEN [d1 EXCEPT !.Quantity = iq.val] ELSE d1
             e  == IF fb.ok THEN iq ELSE fb
         IN IF e.ok
            THEN Lookup(d2, None, calls, products)
            ELSE \* the handler sets self.result and does not return
                 Lookup(d2, ValidationError(e.exc, d2), calls, products)

\* the handler of the parse failure not returning from setup
setup_noreturn(input_data, extract, products) ==
    IF input_data.kind = "str"
    THEN IF extract.kind = "raise"
         THEN Outcome(input_data, None, None,
                      [type |-> "CapabilityError", stage |-> "Buyer Intent Parser"],
                      <<"Buyer Intent Parser">>, 0)
         ELSE LET j == json_loads(extract)
              IN IF ~j.ok
                 THEN Validate(input_data, <<"Buyer Intent Parser">>, products)
                 ELSE Validate(j.val, <<"Buyer Intent Parser">>, products)
    ELSE Validate(input_data, <<>>, products)

\* lines 21-96
setup(input_data, extract, products) ==
    IF input_data.kind = "str"
    THEN IF extract.kind = "raise"
         THEN \* line 48 is outside every try block
              Outcome(input_data, None, None,
                      [type |-> "CapabilityError", stage |-> "Buyer Intent Parser"],
                      <<"Buyer Intent Parser">>, 0)
         ELSE LET j == json_loads(extract)
              IN IF ~j.ok
                 THEN Outcome(input_data, None, ParseError(j.exc, extract), None,
                              <<"Buyer Intent Parser">>, 0)
                 ELSE Validate(j.val, <<"Buyer Intent Parser">>, products)
    ELSE Validate(input_data, <<>>, products)

\* ------------------------------------------------------ bounded inputs ----
P5upper == <<"P", "5">>
P5lower == <<"p", "5">>
P5padded == <<" ", "P", "5", " ">>
P2lower == <<"p", "2">>
Zzz == <<"z", "z", "z">>

BudgetValues ==
    {Missing, None, PyInt(2), PyFloat(1999),
     PyStr(<<"1", "9", ".", "9", "9">>), PyStr(<<"a">>)}
QuantityValues ==
    {Missing, None, PyInt(2), PyFloat(250),
     PyStr(<<"2">>), PyStr(<<"2", ".", "5">>), PyStr(<<"a">>)}
ProductIDValues ==
    {Missing, PyInt(5), PyStr(P5upper), PyStr(P5lower), PyStr(P5padded),
     PyStr(P2lower), PyStr(Zzz)}
InstructionValues == {Missing, PyStr(<<"x">>)}

Dicts ==
    { [kind |-> "dict", Budget |-> b, Quantity |-> q, ProductID |-> p,
       Instruction |-> i, ProductDetails |-> Missing] :
         b \in BudgetValues, q \in QuantityValues,
         p \in ProductIDValues, i \in InstructionValues }

FreeText == [kind |-> "str", text |-> "request"]

\* what the capability answers to the extraction task: it raises, or it
\* returns text that is not JSON, or JSON that is not an object, or a JSON
\* object
NoCompletion == [kind |-> "raise"]
Completions ==
    {NoCompletion, Completion(FALSE, None), Completion(TRUE, [kind |-> "list"])}
      \cup {Completion(TRUE, d) : d \in Dicts}

\* the stage at which the capability raises, "none" when it never does
FailStages == {"none", "Shortlist", "Review", "Selection", "Approval"}

Record(pid, seller) == [product_id |-> PyStr(pid), seller |-> seller]
Catalogs ==
    { << Record(P5upper, "s1"), Record(P2lower, "s2"), Record(<<" ", "p", "5">>, "s3") >>,
      << Record(P2lower, "s2") >> }

\* --------------------------------------------------------------- state ----
VARIABLES request, input_data, crew, result, pc, exc, calls, lookups,
          started, outputs, ret, constructs, runs, llm, products, lk

vars == <<request, input_data, crew, result, pc, exc, calls, lookups,
          started, outputs, ret, constructs, runs, llm, products, lk>>

Init ==
    /\ \/ /\ request \in Dicts
          /\ llm \in [extract : {NoCompletion}, fail : FailStages]
       \/ /\ request = FreeText
          /\ llm \in [extract : Completions, fail : FailStages]
    /\ products \in Catalogs
    /\ input_data = request
    /\ crew = None
    /\ result = None
    /\ pc = "start"
    /\ exc = None
    /\ calls = <<>>
    /\ lookups = 0
    /\ started = <<>>
    /\ outputs = <<>>
    /\ ret = <<>>
    /\ constructs = 0
    /\ runs = 0
    /\ lk = <<>>

\* lines 14-19: MarketplaceCrew(request).  A dict request is mutated in
\* place by setup, so the caller's object changes with self.input_data.
Construct ==
    /\ pc \in {"start", "constructed", "ctor_raised", "run_raised"}
    /\ constructs < MaxConstructs
    /\ LET o == setup(request, llm.extract, products)
       IN /\ input_data' = o.input_data
          /\ request' = IF request.kind = "dict" THEN o.input_data ELSE request
          /\ crew' = o.crew
          /\ result' = o.result
          /\ exc' = o.exc
          /\ calls' = o.calls
          /\ lookups' = o.lookups
          /\ pc' = IF o.exc = None THEN "constructed" ELSE "ctor_raised"
    /\ started' = <<>>
    /\ outputs' = <<>>
    /\ runs' = 0
    /\ constructs' = constructs + 1
    /\ UNCHANGED <<ret, llm, products, lk>>

\* lines 197-202: run() up to its return, or up to the call of kickoff
Run ==
    /\ pc = "constructed"
    /\ runs < MaxRuns
    /\ IF result # None
       THEN /\ ret' = Append(ret, result)
            /\ runs' = runs + 1
            /\ UNCHANGED <<pc, started, outputs>>
       ELSE IF crew # None
       THEN /\ pc' = "kickoff"
            /\ started' = <<>>
            /\ outputs' = <<>>
            /\ UNCHANGED <<ret, runs>>
       ELSE /\ ret' = Append(ret, CrewNotInitialized)
            /\ runs' = runs + 1
            /\ UNCHANGED <<pc, started, outputs>>
    /\ UNCHANGED <<request, input_data, crew, result, exc, calls, lookups,
                   constructs, llm, products, lk>>

\* line 201: one task of self.crew.kickoff().  The tasks run in list order,
\* each with the output of the task before it as context; an exception of
\* the capability ends kickoff and leaves run(); the output of the last
\* task is what kickoff, and so run(), returns.
KickoffTask ==
    /\ pc = "kickoff"
    /\ LET i == Len(outputs) + 1
           task == crew.tasks[i]
           context == IF i = 1 THEN NoContext ELSE outputs[i - 1]
       IN /\ calls' = Append(calls, task.name)
          /\ started' = Append(started, [name |-> task.name, context |-> context])
          /\ IF llm.fail = task.name
             THEN /\ pc' = "run_raised"
                  /\ exc' = [type |-> "CapabilityError", stage |-> task.name]
                  /\ UNCHANGED <<outputs, ret, runs>>
             ELSE /\ outputs' = Append(outputs, Complete(task, context))
                  /\ exc' = exc
                  /\ IF i = Len(crew.tasks)
                     THEN /\ pc' = "constructed"
                          /\ ret' = Append(ret, outputs'[i])
                          /\ runs' = runs + 1
                     ELSE UNCHANGED <<pc, ret, runs>>
    /\ UNCHANGED <<request, input_data, crew, result, lookups, constructs,
                   llm, products, lk>>

Next == Construct \/ Run \/ KickoffTask

Spec == Init /\ [][Next]_vars

TypeOK ==
    /\ pc \in {"start", "constructed", "ctor_raised", "run_raised", "kickoff"}
    /\ constructs \in 0..MaxConstructs
    /\ runs \in 0..MaxRuns
    /\ lookups \in 0..1

\* ------------------------------------------- load_product_details alone ----
\* records of the catalogs that the lookup is applied to
MaxCatalog == 3

LookupRecords ==
    { Record(P5upper, "s1"), Record(<<" ", "p", "5">>, "s2"),
      Record(P2lower, "s3"), Record(<<"P", "5", " ">>, "s4") }

LookupCatalogs ==
    UNION { [1..n -> LookupRecords] : n \in 0..MaxCatalog }

LookupIds ==
    { P5upper, P5lower, P5padded, P2lower, Zzz, <<"p", " ", "5">>, <<>> }

InitLookup ==
    /\ products \in LookupCatalogs
    /\ lk = <<>>
    /\ request = FreeText
    /\ llm = [extract |-> NoCompletion, fail |-> "none"]
    /\ input_data = request
    /\ crew = None
    /\ result = None
    /\ pc = "start"
    /\ exc = None
    /\ calls = <<>>
    /\ lookups = 0
    /\ started = <<>>
    /\ outputs = <<>>
    /\ ret = <<>>
    /\ constructs = 0
    /\ runs = 0

\* a call of load_product_details; lk keeps the last two calls
LoadProductDetails ==
    /\ \E product_id \in LookupIds :
         LET call == [arg |-> product_id,
                      res |-> load_product_details(product_id, products)]
         IN lk' = IF Len(lk) < 2 THEN Append(lk, call) ELSE <<lk[2], call>>
    /\ UNCHANGED <<request, input_data, crew, result, pc, exc, calls, lookups,
                   started, outputs, ret, constructs, runs, llm, products>>

NextLookup == LoadProductDetails

SpecLookup == InitLookup /\ [][NextLookup]_vars

\* --------------------------------------------------------- properties ----
\* Equality of two identifiers after trimming whitespace and folding case,
\* stated on the characters, without strip() and lower().
FoldCase(c) == IF c \in {"p", "P"} THEN "p" ELSE IF c \in {"z", "Z"} THEN "z" ELSE c

Trimmed(s) ==
    LET ink == {i \in 1..Len(s) : s[i] # " "}
    IN IF ink = {} THEN <<>>
       ELSE SubSeq(s, CHOOSE i \in ink : \A j \in ink : i <= j,
                      CHOOSE i \in ink : \A j \in ink : j <= i)

SameId(a, b) ==
    /\ Len(Trimmed(a)) = Len(Trimmed(b))
    /\ \A i \in 1..Len(Trimmed(a)) : FoldCase(Trimmed(a)[i]) = FoldCase(Trimmed(b)[i])

\* positions of the catalog records that match the identifier
MatchingPositions(id) ==
    {i \in 1..Len(products) : SameId(products[i].product_id.s, id)}

StageCalls == {i \in 1..Len(calls) : calls[i] # "Buyer Intent Parser"}
ExtractionCalls == {i \in 1..Len(calls) : calls[i] = "Buyer Intent Parser"}

Coercible(d) == float(d.Budget, "Budget").ok /\ int(d.Quantity, "Quantity").ok

\* C1: the pipeline is built (self.crew set) only when Budget was coerced
\* to a float, Quantity to an integer, ProductID is present and the lookup
\* returned a non-empty ProductDetails list, no gate having failed.
C1_PipelineOnlyFromValidRequest ==
    crew # None =>
        /\ input_data.kind = "dict"
        /\ input_data.Budget.kind = "float"
        /\ input_data.Quantity.kind = "int"
        /\ input_data.ProductID.kind # "missing"
        /\ input_data.ProductDetails.kind = "list"
        /\ input_data.ProductDetails.items # <<>>
        /\ result = None

\* C2: for a structured input whose Budget or Quantity is missing or not
\* numeric, the constructor returns, run() returns the validation error
\* message, and no stage is invoked.
C2_ValidationErrorReturned ==
    (request.kind = "dict" /\ ~Coercible(request) /\ pc # "start") =>
        /\ pc = "constructed"
        /\ result.kind = "ValidationError"
        /\ \A i \in 1..Len(ret) : ret[i].kind = "ValidationError"
        /\ StageCalls = {}

\* C3: when the ProductID of the request matches no catalog record under
\* the case-insensitive, whitespace-trimmed comparison, the constructor
\* returns with the not-found message that carries that ProductID, the
\* pipeline is not built, run() returns that message and no stage is
\* invoked.
C3_NotFoundReturned ==
    ( /\ pc # "start"
      /\ input_data.kind = "dict"
      /\ input_data.ProductID.kind = "str"
      /\ MatchingPositions(input_data.ProductID.s) = {} ) =>
        /\ pc = "constructed"
        /\ result = [kind |-> "NotFound", product_id |-> input_data.ProductID.s]
        /\ crew = None
        /\ StageCalls = {}
        /\ \A i \in 1..Len(ret) : ret[i] = result

C3_Witness ==
    /\ request.kind = "dict"
    /\ request.ProductID = PyStr(P5padded)
    /\ MatchingPositions(P5padded) = {}
    /\ ~Coercible(request)
    /\ pc = "constructed"
    /\ Len(ret) >= 1

\* C4: for a structured input whose ProductID is in the catalog and whose
\* Quantity and Budget are coercible, with a capability that never fails,
\* the constructor returns without a normalization error and every run()
\* returns the output of the Approval stage.
C4_ValidInputReachesApproval ==
    ( /\ pc # "start"
      /\ request.kind = "dict"
      /\ request.ProductID.kind = "str"
      /\ MatchingPositions(request.ProductID.s) # {}
      /\ Coercible(request)
      /\ llm.fail = "none" ) =>
        /\ pc \in {"constructed", "kickoff"}
        /\ result = None
        /\ crew # None
        /\ \A i \in 1..Len(ret) : ret[i].kind = "output" /\ ret[i].by = "Approval"

\* C5: within one run() the stages start in the order Shortlist, Review,
\* Selection, Approval, each at most once, stage N+1 only after stage N has
\* produced its output and with that output as context; after a failure of
\* a stage no later stage starts.
C5_StagesInOrder ==
    /\ Len(started) <= 4
    /\ Len(outputs) <= Len(started)
    /\ Len(started) <= Len(outputs) + 1
    /\ \A i \in 1..Len(started) :
         /\ started[i].name = StageNames[i]
         /\ i = 1 => started[i].context = NoContext
         /\ i > 1 => started[i].context = outputs[i - 1]
    /\ \A i \in 1..Len(outputs) : outputs[i].by = StageNames[i]
    /\ pc = "run_raised" =>
         /\ Len(outputs) = Len(started) - 1
         /\ exc.stage = started[Len(started)].name
         /\ exc.stage = "Selection" => \A i \in 1..Len(started) : started[i].name # "Approval"

C5_Witness ==
    /\ pc = "run_raised"
    /\ exc.stage = "Selection"
    /\ Len(started) = 3
    /\ Len(outputs) = 2

\* C6: no failure escapes as an exception: neither the constructor nor
\* run() ever raises.
C6_NoExceptionEscapes ==
    /\ pc # "ctor_raised"
    /\ pc # "run_raised"

\* C7: for free-text input setup calls the capability once for the
\* extraction, and never for structured input; when the completion is not
\* parseable the result is the parse error message with the raw completion,
\* and neither a catalog lookup nor a stage follows.
C7_OneExtractionAndParseError ==
    pc # "start" =>
        /\ Cardinality(ExtractionCalls) = IF request.kind = "str" THEN 1 ELSE 0
        /\ (request.kind = "str" /\ llm.extract.kind = "completion" /\ ~llm.extract.json) =>
              /\ pc = "constructed"
              /\ result = [kind |-> "ParseError",
                           e |-> [type |-> "JSONDecodeError", raw |-> llm.extract],
                           raw |-> llm.extract]
              /\ lookups = 0
              /\ crew = None
              /\ StageCalls = {}
              /\ \A i \in 1..Len(ret) : ret[i] = result

C7_Witness ==
    /\ request.kind = "str"
    /\ llm.extract.kind = "completion"
    /\ ~llm.extract.json
    /\ pc = "constructed"
    /\ calls = <<"Buyer Intent Parser">>
    /\ Len(ret) >= 1

\* C8: load_product_details returns the catalog records whose product_id
\* equals the argument after trimming and case folding, in catalog order:
\* " P5 ", "p5" and "P5" get the same sequence, and an identifier without
\* a match gets the empty sequence.
C8_LookupIsTrimmedCaseInsensitiveFilter ==
    /\ \A k \in 1..Len(lk) :
         LET pos == MatchingPositions(lk[k].arg)
             nth(n) == CHOOSE i \in pos : Cardinality({j \in pos : j <= i}) = n
         IN /\ Len(lk[k].res) = Cardinality(pos)
            /\ \A n \in 1..Len(lk[k].res) : lk[k].res[n] = products[nth(n)]
    /\ \A k \in 1..Len(lk) : \A m \in 1..Len(lk) :
         ({lk[k].arg, lk[m].arg} \subseteq {P5padded, P5lower, P5upper})
            => lk[k].res = lk[m].res

C8_Witness ==
    /\ Len(lk) = 2
    /\ lk[1].arg = P5padded
    /\ lk[2].arg = P5lower
    /\ Len(lk[1].res) >= 2
    /\ lk[1].res[1].seller # lk[1].res[2].seller

\* C9: with the deterministic capability and an unchanged catalog, every
\* run() for the same structured request, on the same object or on a new
\* one built from the same request, returns the same output.
C9_RepeatedRunsAgree ==
    request.kind = "dict" =>
        \A i \in 1..Len(ret) : \A j \in 1..Len(ret) : ret[i] = ret[j]

C9_Witness ==
    /\ request.kind = "dict"
    /\ constructs = 2
    /\ runs >= 1
    /\ Len(ret) >= 3
    /\ ret[1].kind = "output"

\* C10: when the constructor has returned, self.result or self.crew is
\* set; run() never returns the fallback message and setup never sets the
\* message of its second empty-lookup check.
C10_ResultOrCrewSet ==
    /\ pc \in {"constructed", "kickoff", "run_raised"} => (result # None \/ crew # None)
    /\ \A i \in 1..Len(ret) : ret[i] # CrewNotInitialized
    /\ result.kind # "NoMatches"

C10_Witness ==
    /\ pc = "constructed"
    /\ result # None
    /\ crew = None
    /\ lookups = 1
    /\ Len(ret) >= 1

====
